---- MODULE Spec2Model ----
(***************************************************************************)
(* A model of src/app/src/layouts/SidebarLayout.tsx: the Nav component     *)
(* (text filter, grouping, link targets, scroll-into-view layout effect),  *)
(* nearestScrollableContainer, and the mobile drawer of SidebarLayout.     *)
(*                                                                         *)
(* JavaScript strings that the code inspects character by character        *)
(* (title, description, filter) are sequences of one-character strings.    *)
(* Strings that are only compared (href, group, published, pathname) are   *)
(* TLA+ strings.  `undefined` is Undefined for the latter and              *)
(* UndefinedText for the former.  The library functions (radash sift,      *)
(* unique, objectify; React's ref attachment; the DOM's getComputedStyle   *)
(* and scrollTop) are modelled by their documented behaviour.              *)
(***************************************************************************)
EXTENDS Integers, Sequences, FiniteSets, TLC

VARIABLES
  navigation,            \* nav(version ?? 'default'): the lists of pages, per nav key
  order,                 \* config.sidebar?.order: [set |-> BOOLEAN, val |-> Seq(group)]
  fallbackHref,          \* the fallbackHref prop of SidebarLayout / Nav
  filter,                \* useSearch().filter
  version,               \* useVersioning().version
  pathname,              \* router.pathname
  filteredNav,           \* filtered(navigation) of the last render
  navItems,              \* the NavItem elements of the last render, in document order
  activeItemRef,         \* activeItemRef.current
  previousActiveItemRef, \* previousActiveItemRef.current
  scrollTop,             \* scrollTop of each element that can be the scroll container
  lastEvent,             \* the last step: its kind, whether the layout effect ran, and
                         \* the scroll positions when its render began (after it, if none)
  navIsOpen,             \* the navIsOpen prop (state owned by the parent)
  hasSetNavIsOpen,       \* whether the parent supplied setNavIsOpen
  dialogOpen,            \* the open prop handed to the Dialog by the last render
  setNavIsOpenCalls,     \* the calls SidebarLayout made to setNavIsOpen: [from, arg]
  raised,                \* an exception raised by a handler or by the function under test
  dom,                   \* the DOM tree nearestScrollableContainer walks
  nsc                    \* the running call of nearestScrollableContainer

vars == <<navigation, order, fallbackHref, filter, version, pathname, filteredNav,
          navItems, activeItemRef, previousActiveItemRef, scrollTop, lastEvent,
          navIsOpen, hasSetNavIsOpen, dialogOpen, setNavIsOpenCalls, raised, dom, nsc>>

navVars    == <<navigation, order, fallbackHref, filter, version, pathname,
                filteredNav, navItems>>
scrollVars == <<activeItemRef, previousActiveItemRef, scrollTop, lastEvent>>
drawerVars == <<navIsOpen, hasSetNavIsOpen, dialogOpen, setNavIsOpenCalls>>
nscVars    == <<dom, nsc>>

(***************************************************************************)
(* Bounds                                                                  *)
(***************************************************************************)
MaxPages     == 2   \* pages in the first nav key of a navigation
MaxFilterLen == 2   \* characters typed into the filter input

Undefined     == "<undefined>"
UndefinedText == <<"<undefined>">>

(***************************************************************************)
(* JavaScript string and array primitives used by filtered()               *)
(***************************************************************************)
RECURSIVE Flat(_)
Flat(lists) ==
  IF lists = <<>> THEN <<>> ELSE Head(lists) \o Flat(Tail(lists))

LowerChar(c) ==
  CASE c = "A" -> "a"
    [] c = "B" -> "b"
    [] OTHER   -> c

toLowerCase(s) == [i \in 1..Len(s) |-> LowerChar(s[i])]

IsWhiteSpace(c) == c = " "

RECURSIVE trimStart(_)
trimStart(s) ==
  IF s # <<>> /\ IsWhiteSpace(Head(s)) THEN trimStart(Tail(s)) ELSE s

RECURSIVE trimEnd(_)
trimEnd(s) ==
  IF s # <<>> /\ IsWhiteSpace(s[Len(s)]) THEN trimEnd(SubSeq(s, 1, Len(s) - 1)) ELSE s

trim(s) == trimEnd(trimStart(s))

includes(s, f) ==
  \E i \in 0..(Len(s) - Len(f)) : SubSeq(s, i + 1, i + Len(f)) = f

RECURSIVE join(_, _)
join(list, sep) ==
  IF list = <<>> THEN <<>>
  ELSE IF Len(list) = 1 THEN list[1]
  ELSE list[1] \o sep \o join(Tail(list), sep)

\* radash sift: drops the falsy entries (undefined and the empty string)
FalsyText(s)  == s = UndefinedText \/ s = <<>>
FalsyStr(s)   == s = Undefined \/ s = ""
siftText(list) == SelectSeq(list, LAMBDA s : ~FalsyText(s))
siftStr(list)  == SelectSeq(list, LAMBDA s : ~FalsyStr(s))

\* radash unique: the first occurrence of each value, in order of occurrence
RECURSIVE unique(_)
unique(list) ==
  IF list = <<>> THEN <<>>
  ELSE LET init == unique(SubSeq(list, 1, Len(list) - 1))
           x    == list[Len(list)]
       IN IF \E i \in 1..Len(init) : init[i] = x THEN init ELSE Append(init, x)

(***************************************************************************)
(* Nav.filtered.  A page is identified by its position in allPages, which  *)
(* stands for the identity of the JavaScript object.                       *)
(***************************************************************************)
allPagesOf(n) == Flat(n)

PageText(p) == toLowerCase(join(siftText(<<p.meta.title, p.meta.description>>), <<" ">>))

\* allPages.filter(p => text(p).includes(f)): the matching positions, ascending
RECURSIVE matchPagesFrom(_, _, _)
matchPagesFrom(allPages, f, i) ==
  IF i > Len(allPages) THEN <<>>
  ELSE (IF includes(PageText(allPages[i]), f) THEN <<i>> ELSE <<>>)
         \o matchPagesFrom(allPages, f, i + 1)

\* filter.toLowerCase(), the trim left out
FilterKeyUntrimmed(flt) == toLowerCase(flt)

\* filter.trim().toLowerCase()
FilterKey(flt) == toLowerCase(trim(flt))

\* the groups in order of first occurrence even when config.sidebar.order is set
GroupsByFirstOccurrence(ord, matchGroups) ==
  LET seen == unique(siftStr(matchGroups))
  IN IF ord.set
       THEN SelectSeq(seen, LAMBDA g : \E k \in 1..Len(ord.val) : ord.val[k] = g)
       ELSE seen

\* the group names: config.sidebar.order filtered by the matching pages when the
\* order is set, else the distinct truthy groups of the matching pages
GroupsOf(ord, matchGroups) ==
  IF ord.set
    THEN SelectSeq(ord.val, LAMBDA g : \E k \in 1..Len(matchGroups) : matchGroups[k] = g)
    ELSE unique(siftStr(matchGroups))

\* every matching page under every group
PagesOfGroupUnfiltered(allPages, matchPages, g) == matchPages

\* matchPages.filter(p => p.meta.group === g)
PagesOfGroup(allPages, matchPages, g) ==
  SelectSeq(matchPages, LAMBDA i : allPages[i].meta.group = g)

filtered(n, flt, ord) ==
  LET allPages   == allPagesOf(n)
      f          == FilterKey(flt)
      matchPages == matchPagesFrom(allPages, f, 1)
      groups     == GroupsOf(ord, [k \in 1..Len(matchPages) |->
                                     allPages[matchPages[k]].meta.group])
  IN [pages  |-> [g \in {groups[k] : k \in 1..Len(groups)} |->
                    PagesOfGroup(allPages, matchPages, g)],
      groups |-> groups]

(***************************************************************************)
(* NavItem and the rendering of the groups by Nav                          *)
(***************************************************************************)
\* <Link href={isPublished ? href : fallbackHref}>: the prop chosen, and its value
NavItemLink(href, isPublished, fallback) ==
  IF isPublished THEN [from |-> "href", value |-> href]
                 ELSE [from |-> "fallbackHref", value |-> fallback]

\* new RegExp(item.meta.match).test(path).  meta.match is [set, lang]: set is whether
\* it is truthy (a non-empty pattern), lang the set of paths the pattern matches
RegExpTest(match, path) == path \in match.lang

isActiveItem(item, path) ==
  IF item.meta.match.set THEN RegExpTest(item.meta.match, path) ELSE item.href = path

\* fallbackHref ?? ''
NullishOr(v, d) == IF v = Undefined THEN d ELSE v

\* published only when meta.published is 'true'
isPublishedOnlyIfTrue(item) == item.meta.published = "true"

\* isPublished={item.meta.published !== 'false'}
isPublishedOf(item) == item.meta.published # "false"

\* The NavItem rendered for the i-th (from 0) page of group g
NavItemOf(n, g, i, idx, path, fb) ==
  LET item == allPagesOf(n)[idx]
      isActive == isActiveItem(item, path)
  IN [group    |-> g,
      key      |-> i,
      page     |-> idx,
      isActive |-> isActive,
      hasRef   |-> isActive,
      link     |-> NavItemLink(item.href, isPublishedOf(item), NullishOr(fb, "")),
      children |-> item.meta.title]

\* filteredNav.groups.map(group => filteredNav.pages[group].map(...)), flattened
RenderItems(n, fn, path, fb) ==
  Flat([gi \in 1..Len(fn.groups) |->
          LET g == fn.groups[gi]
              filteredPages == fn.pages[g]
          IN [i \in 1..Len(filteredPages) |->
                NavItemOf(n, g, i - 1, filteredPages[i], path, fb)]])

(***************************************************************************)
(* The DOM that nearestScrollableContainer walks.  A tree is a function    *)
(* from node names to nodes; "null" is a null parentNode and NoNode the    *)
(* value undefined.                                                        *)
(***************************************************************************)
NoNode == "undefined"

Node(kind, parentNode, host, overflowX, overflowY, canScrollX, canScrollY) ==
  [kind |-> kind, parentNode |-> parentNode, host |-> host,
   overflowX |-> overflowX, overflowY |-> overflowY,
   canScrollX |-> canScrollX, canScrollY |-> canScrollY]

\* window.getComputedStyle(el) throws a TypeError unless el is an Element
IsElement(d, el) == el \in DOMAIN d /\ d[el].kind = "element"

\* isScrollable(el): "throw", or the boolean it returns
isScrollable(d, el) ==
  IF ~IsElement(d, el) THEN "throw"
  ELSE LET overflowX == d[el].overflowX
           overflowY == d[el].overflowY
           canScrollY == d[el].canScrollY
           canScrollX == d[el].canScrollX
           isScrollableY == canScrollY /\ (overflowY = "auto" \/ overflowY = "scroll")
           isScrollableX == canScrollX /\ (overflowX = "auto" \/ overflowX = "scroll")
       IN IF isScrollableY \/ isScrollableX THEN "true" ELSE "false"

\* el?.parentNode || (el as any).host
ParentOrHost(d, el) ==
  IF el \notin DOMAIN d THEN "throw"
  ELSE IF d[el].parentNode # "null" THEN d[el].parentNode
  ELSE d[el].host

\* One evaluation of the loop of nearestScrollableContainer from el:
\* [pc |-> "loop" | "returned" | "thrown", el |-> the element held]
LoopStep(d, el) ==
  IF el = "body" THEN [pc |-> "returned", el |-> el]
  ELSE LET s == isScrollable(d, el)
       IN IF s = "throw" THEN [pc |-> "thrown", el |-> el]
          ELSE IF s = "true" THEN [pc |-> "returned", el |-> el]
          ELSE IF ParentOrHost(d, el) = "throw" THEN [pc |-> "thrown", el |-> el]
          ELSE [pc |-> "loop", el |-> ParentOrHost(d, el)]

RECURSIVE nearestScrollableContainer(_, _)
nearestScrollableContainer(d, el) ==
  LET r == LoopStep(d, el)
  IN IF r.pc = "loop" THEN nearestScrollableContainer(d, r.el) ELSE r

(***************************************************************************)
(* Refs and the layout effect of Nav                                       *)
(***************************************************************************)
\* A mounted <li> is identified as React's reconciliation does: by the key of its
\* group's <li> and its own key.  NullRef is a ref holding undefined or null.
NullRef == [group |-> Undefined, key |-> -1]

ElementOf(it) == [group |-> it.group, key |-> it.key]

RefHolders(items) == {ElementOf(items[k]) : k \in {j \in 1..Len(items) : items[j].hasRef}}

\* The commit of a render: refs of elements that were unmounted or lost their ref
\* prop are set to null, then the refs newly given are attached in document order.
CommitRefs(old, new, cur) ==
  LET detached == RefHolders(old) \ RefHolders(new)
      attached == {k \in 1..Len(new) :
                     new[k].hasRef /\ ElementOf(new[k]) \notin RefHolders(old)}
  IN IF attached # {}
       THEN ElementOf(new[CHOOSE k \in attached : \A j \in attached : j <= k])
     ELSE IF detached # {} THEN NullRef
     ELSE cur

ItemHalfHeight      == 1   \* half the height of a row of the nav (heading or item)
ContainerHalfHeight == 2   \* half the client height of the scroll container
MaxScrollTop        == 8   \* the largest scrollTop of the scroll container

ItemHeight      == 2 * ItemHalfHeight
ContainerHeight == 2 * ContainerHalfHeight

\* offsetTop of a mounted item: the rows (group headings and items) above it
offsetTop(items, el) ==
  LET k == CHOOSE j \in 1..Len(items) : ElementOf(items[j]) = el
  IN ItemHeight * ((k - 1) + Cardinality({items[j].group : j \in 1..k}))

\* the value an element's scrollTop takes when v is assigned to it
ClampScroll(v) == IF v < 0 THEN 0 ELSE IF v > MaxScrollTop THEN MaxScrollTop ELSE v

\* an effect that centres the active item whenever it runs
LayoutEffectAlwaysCentres(cur, prev, st, items, d, scrollRef) ==
  IF cur = NullRef THEN [previous |-> prev, scrollTop |-> st, raised |-> FALSE]
  ELSE LET scrollable == nearestScrollableContainer(d, scrollRef)
           top        == offsetTop(items, cur)
       IN [previous |-> cur,
           scrollTop |-> [st EXCEPT ![scrollable.el] =
              ClampScroll(top - ContainerHalfHeight + ItemHalfHeight)],
           raised |-> FALSE]

\* The callback of useIsomorphicLayoutEffect: the refs and scroll positions after it
LayoutEffect(cur, prev, st, items, d, scrollRef) ==
  IF cur = NullRef THEN [previous |-> prev, scrollTop |-> st, raised |-> FALSE]
  ELSE LET previous == cur
       IN IF cur = previous
            THEN [previous |-> previous, scrollTop |-> st, raised |-> FALSE]
          ELSE LET scrollable == nearestScrollableContainer(d, scrollRef)
                   top        == offsetTop(items, cur)
                   bottom     == top - ContainerHeight + ItemHeight
               IN IF scrollable.pc = "thrown"
                    THEN [previous |-> previous, scrollTop |-> st, raised |-> TRUE]
                  ELSE IF st[scrollable.el] > top \/ st[scrollable.el] < bottom
                    THEN [previous |-> previous,
                          scrollTop |-> [st EXCEPT ![scrollable.el] =
                             ClampScroll(top - ContainerHalfHeight + ItemHalfHeight)],
                          raised |-> FALSE]
                  ELSE [previous |-> previous, scrollTop |-> st, raised |-> FALSE]

(***************************************************************************)
(* Inputs: pages, navigations, configurations, routes                      *)
(***************************************************************************)
NoMatch == [set |-> FALSE, lang |-> {}]

Page(href, title, description, group, published, match) ==
  [href |-> href,
   meta |-> [title |-> title, description |-> description, group |-> group,
             published |-> published, match |-> match]]

PageA == Page("/a", <<"A">>, UndefinedText, "g1", Undefined, NoMatch)
PageB == Page("/b", <<"B">>, <<"a">>, "g2", "false", NoMatch)
PageC == Page("/c", UndefinedText, <<"b">>, Undefined, "true", NoMatch)
PageD == Page("/d", <<>>, UndefinedText, "g3", "false", NoMatch)
PageT == Page("/t", <<"a", " ", "B">>, <<>>, "g1", "false", NoMatch)

PageSet == {PageA, PageB, PageC, PageD}

SeqsUpTo(S, n) == UNION {[1..k -> S] : k \in 0..n}

\* a first nav key of up to MaxPages pages, and a second one, empty or holding PageT
Navigations == {<<s, t>> : s \in SeqsUpTo(PageSet, MaxPages), t \in {<<>>, <<PageT>>}}

NoOrder == [set |-> FALSE, val |-> <<>>]
Orders  == {NoOrder,
            [set |-> TRUE, val |-> <<>>],
            [set |-> TRUE, val |-> <<"g2", "g1">>],
            [set |-> TRUE, val |-> <<"g1", "g2", "g3">>]}

FallbackHrefs == {Undefined, "/soon", "/b"}

FilterChars == {"a", "B", " "}

\* the routed navigations of the scroll model: nav('default') and nav('v2')
RouteA == Page("/a", <<"A">>, UndefinedText, "g1", Undefined, NoMatch)
RouteB == Page("/b", <<"B">>, <<"a">>, "g2", Undefined,
               [set |-> TRUE, lang |-> {"/b", "/b/x"}])
RouteC == Page("/c", <<"a", " ", "B">>, UndefinedText, "g1", Undefined,
               [set |-> TRUE, lang |-> {"/c", "/b/x"}])
RouteD == Page("/d", <<"B">>, UndefinedText, "g2", "false", NoMatch)

nav(v) ==
  IF v = "default" THEN <<<<RouteA, RouteB>>, <<RouteC, RouteD>>>>
  ELSE <<<<RouteD, RouteC, RouteA>>>>

Versions  == {Undefined, "v2"}
Pathnames == {"/a", "/b", "/b/x", "/d", "/other"}

\* the desktop sidebar: body > div.overflow-y-auto > nav
LayoutDom ==
  [n \in {"document", "html", "body", "sidebar", "nav"} |->
     CASE n = "document" -> Node("document", "null", NoNode, "visible", "visible", FALSE, FALSE)
       [] n = "html"     -> Node("element", "document", NoNode, "visible", "visible", FALSE, FALSE)
       [] n = "body"     -> Node("element", "html", NoNode, "visible", "visible", FALSE, FALSE)
       [] n = "sidebar"  -> Node("element", "body", NoNode, "visible", "auto", FALSE, TRUE)
       [] n = "nav"      -> Node("element", "sidebar", NoNode, "visible", "visible", FALSE, FALSE)]

ScrollContainers == {"body", "sidebar"}

(***************************************************************************)
(* Rendering Nav: render, commit of the refs, layout effect                *)
(***************************************************************************)
\* the dependency list [router.pathname]: the effect runs when it changed
DepsChanged(oldPath, newPath) == oldPath # newPath

NoEffect == [previous |-> previousActiveItemRef, scrollTop |-> scrollTop, raised |-> FALSE]

RenderNav(kind, n, flt, path, mount) ==
  LET fn    == filtered(n, flt, order)
      items == RenderItems(n, fn, path, fallbackHref)
      cur   == CommitRefs(IF mount THEN <<>> ELSE navItems, items,
                          IF mount THEN NullRef ELSE activeItemRef)
      runs  == mount \/ DepsChanged(pathname, path)
      eff   == IF runs
                 THEN LayoutEffect(cur, previousActiveItemRef, scrollTop, items, dom, "nav")
                 ELSE NoEffect
  IN /\ filteredNav' = fn
     /\ navItems' = items
     /\ activeItemRef' = cur
     /\ previousActiveItemRef' = eff.previous
     /\ scrollTop' = eff.scrollTop
     /\ raised' = IF eff.raised THEN "TypeError" ELSE raised
     /\ lastEvent' = [kind |-> kind, effect |-> runs, before |-> scrollTop]

\* the state after the first render of Nav with these inputs
Mounted(n, ord, fb, flt, v, path, d) ==
  LET fn    == filtered(n, flt, ord)
      items == RenderItems(n, fn, path, fb)
      cur   == CommitRefs(<<>>, items, NullRef)
      st    == [c \in ScrollContainers |-> 0]
      eff   == LayoutEffect(cur, NullRef, st, items, d, "nav")
  IN /\ navigation = n /\ order = ord /\ fallbackHref = fb
     /\ filter = flt /\ version = v /\ pathname = path
     /\ filteredNav = fn
     /\ navItems = items
     /\ activeItemRef = cur
     /\ previousActiveItemRef = eff.previous
     /\ scrollTop = eff.scrollTop
     /\ raised = IF eff.raised THEN "TypeError" ELSE "none"
     /\ lastEvent = [kind |-> "mount", effect |-> TRUE, before |-> st]
     /\ dom = d

DrawerIdle ==
  /\ navIsOpen = FALSE /\ hasSetNavIsOpen = FALSE /\ dialogOpen = FALSE
  /\ setNavIsOpenCalls = <<>>

NscIdle == nsc = [pc |-> "idle", el |-> NoNode, arg |-> NoNode]

\* handleChange: setFilter(e.target.value ?? ''), the value one edit away from the
\* current one (a character typed, the last one deleted, the input cleared)
SetFilter ==
  \E value \in ({Append(filter, c) : c \in FilterChars}
                  \cup {SubSeq(filter, 1, Len(filter) - 1)} \cup {<<>>}) :
    /\ value # filter
    /\ Len(value) <= MaxFilterLen
    /\ filter' = value
    /\ RenderNav("filter", navigation, value, pathname, FALSE)
    /\ UNCHANGED <<navigation, order, fallbackHref, version, pathname, dom, nsc>>
    /\ UNCHANGED drawerVars

\* useVersioning().version changes: navigation = nav(version ?? 'default')
SetVersion ==
  \E v \in Versions :
    /\ v # version
    /\ version' = v
    /\ navigation' = nav(NullishOr(v, "default"))
    /\ RenderNav("version", navigation', filter, pathname, FALSE)
    /\ UNCHANGED <<order, fallbackHref, filter, pathname, dom, nsc>>
    /\ UNCHANGED drawerVars

\* the router moves to another route
Navigate ==
  \E path \in Pathnames :
    /\ path # pathname
    /\ pathname' = path
    /\ RenderNav("navigate", navigation, filter, path, FALSE)
    /\ UNCHANGED <<navigation, order, fallbackHref, filter, version, dom, nsc>>
    /\ UNCHANGED drawerVars

\* the user scrolls the sidebar
UserScroll ==
  \E y \in {ItemHeight * k : k \in 0..MaxScrollTop} :
    /\ y <= MaxScrollTop
    /\ y # scrollTop["sidebar"]
    /\ scrollTop' = [scrollTop EXCEPT !["sidebar"] = y]
    /\ lastEvent' = [kind |-> "scroll", effect |-> FALSE, before |-> scrollTop']
    /\ UNCHANGED <<activeItemRef, previousActiveItemRef, raised, dom, nsc>>
    /\ UNCHANGED navVars
    /\ UNCHANGED drawerVars

(***************************************************************************)
(* Spec: Nav over every navigation, configuration and filter               *)
(***************************************************************************)
Init ==
  /\ \E n \in Navigations, ord \in Orders, fb \in FallbackHrefs :
       Mounted(n, ord, fb, <<>>, Undefined, "/a", LayoutDom)
  /\ DrawerIdle
  /\ NscIdle

Next == SetFilter

Spec == Init /\ [][Next]_vars

(***************************************************************************)
(* SpecScroll: Nav under route, filter and version changes and scrolling   *)
(***************************************************************************)
InitScroll ==
  /\ \E path \in Pathnames :
       Mounted(nav("default"), NoOrder, Undefined, <<>>, Undefined, path, LayoutDom)
  /\ DrawerIdle
  /\ NscIdle

NextScroll == SetFilter \/ SetVersion \/ Navigate \/ UserScroll

SpecScroll == InitScroll /\ [][NextScroll]_vars

(***************************************************************************)
(* SpecDrawer: the mobile drawer of SidebarLayout                          *)
(***************************************************************************)
MaxCalls == 5   \* calls of setNavIsOpen that are logged

\* setNavIsOpen(false) without the ?.: calling undefined throws
OptionalCallUnguarded(has) == IF has THEN "call" ELSE "throw"

\* setNavIsOpen?.(false): "call" when the prop is a function, "skip" when undefined
OptionalCall(has) == IF has THEN "call" ELSE "skip"

\* the argument both close handlers pass
CloseArgument == FALSE

\* () => setNavIsOpen?.(false), from the Dialog's onClose or the close button.  The
\* parent's setNavIsOpen stores its argument and SidebarLayout renders again.
CloseHandler(from) ==
  /\ dialogOpen
  /\ Len(setNavIsOpenCalls) < MaxCalls
  /\ LET outcome == OptionalCall(hasSetNavIsOpen)
     IN /\ setNavIsOpenCalls' =
             IF outcome = "call"
               THEN Append(setNavIsOpenCalls, [from |-> from, arg |-> CloseArgument])
               ELSE setNavIsOpenCalls
        /\ navIsOpen' = IF outcome = "call" THEN CloseArgument ELSE navIsOpen
        /\ raised' = IF outcome \in {"call", "skip"} THEN raised ELSE "TypeError"
  /\ dialogOpen' = navIsOpen'
  /\ lastEvent' = [kind |-> from, effect |-> FALSE, before |-> scrollTop]
  /\ UNCHANGED <<hasSetNavIsOpen, activeItemRef, previousActiveItemRef, scrollTop, dom, nsc>>
  /\ UNCHANGED navVars

DialogOnClose == CloseHandler("onClose")

CloseButtonClick == CloseHandler("closeButton")

\* the parent changes navIsOpen (the menu button of the header) and renders again
ParentSetsNavIsOpen ==
  \E b \in BOOLEAN :
    /\ b # navIsOpen
    /\ navIsOpen' = b
    /\ dialogOpen' = navIsOpen'
    /\ lastEvent' = [kind |-> "parent", effect |-> FALSE, before |-> scrollTop]
    /\ UNCHANGED <<hasSetNavIsOpen, setNavIsOpenCalls, activeItemRef,
                   previousActiveItemRef, scrollTop, raised, dom, nsc>>
    /\ UNCHANGED navVars

InitDrawer ==
  /\ Mounted(nav("default"), NoOrder, Undefined, <<>>, Undefined, "/a", LayoutDom)
  /\ navIsOpen \in BOOLEAN
  /\ hasSetNavIsOpen \in BOOLEAN
  /\ dialogOpen = navIsOpen
  /\ setNavIsOpenCalls = <<>>
  /\ NscIdle

NextDrawer == DialogOnClose \/ CloseButtonClick \/ ParentSetsNavIsOpen

SpecDrawer == InitDrawer /\ [][NextDrawer]_vars

(***************************************************************************)
(* SpecContainer: nearestScrollableContainer, one loop iteration per step  *)
(***************************************************************************)
Plain       == [ox |-> "visible", oy |-> "visible", cx |-> FALSE, cy |-> TRUE]
ScrollsY    == [ox |-> "visible", oy |-> "auto", cx |-> FALSE, cy |-> TRUE]
ScrollsX    == [ox |-> "scroll", oy |-> "hidden", cx |-> TRUE, cy |-> TRUE]
NoOverflow  == [ox |-> "scroll", oy |-> "auto", cx |-> FALSE, cy |-> FALSE]
Styles      == {Plain, ScrollsY, ScrollsX, NoOverflow}

Styled(parentNode, st) ==
  Node("element", parentNode, NoNode, st.ox, st.oy, st.cx, st.cy)

\* document > html > body > sidebar > nav; a shadow root hosted by nav holding slot;
\* a detached element holding orphan
DomTrees ==
  {[n \in {"document", "html", "body", "sidebar", "nav", "shadow", "slot",
           "detached", "orphan"} |->
      CASE n = "document" -> Node("document", "null", NoNode, "visible", "visible", FALSE, FALSE)
        [] n = "html"     -> Styled("document", Plain)
        [] n = "body"     -> Styled("html", Plain)
        [] n = "sidebar"  -> Styled("body", st[1])
        [] n = "nav"      -> Styled("sidebar", st[2])
        [] n = "shadow"   -> Node("shadowroot", "null", "nav", "visible", "visible", FALSE, FALSE)
        [] n = "slot"     -> Styled("shadow", st[3])
        [] n = "detached" -> Styled("null", Plain)
        [] n = "orphan"   -> Styled("detached", st[4])] : st \in [1..4 -> Styles]}

\* a caller passes el, an element of the tree or undefined
NscCall ==
  \E el \in DOMAIN dom \cup {NoNode} :
    /\ nsc.pc = "idle"
    /\ nsc' = [pc |-> "loop", el |-> el, arg |-> el]
    /\ UNCHANGED <<dom, raised, scrollTop, lastEvent, activeItemRef, previousActiveItemRef>>
    /\ UNCHANGED navVars
    /\ UNCHANGED drawerVars

\* the loop condition and, when it holds, the loop body; or the return
NscStep ==
  /\ nsc.pc = "loop"
  /\ LET r == LoopStep(dom, nsc.el)
     IN /\ nsc' = [pc |-> r.pc, el |-> r.el, arg |-> nsc.arg]
        /\ raised' = IF r.pc = "thrown" THEN "TypeError" ELSE raised
  /\ UNCHANGED <<dom, scrollTop, lastEvent, activeItemRef, previousActiveItemRef>>
  /\ UNCHANGED navVars
  /\ UNCHANGED drawerVars

InitContainer ==
  /\ \E d \in DomTrees :
       Mounted(nav("default"), NoOrder, Undefined, <<>>, Undefined, "/a", d)
  /\ DrawerIdle
  /\ nsc = [pc |-> "idle", el |-> NoNode, arg |-> NoNode]

NextContainer == NscCall \/ NscStep

SpecContainer == InitContainer /\ [][NextContainer]_vars

(***************************************************************************)
(* Properties                                                              *)
(***************************************************************************)
AllPages     == allPagesOf(navigation)
PageIds      == 1..Len(AllPages)
GroupOfPage(i) == AllPages[i].meta.group
\* the page's text contains the filter, trimmed and lower-cased
Matches(i)   == includes(PageText(AllPages[i]), toLowerCase(trim(filter)))
Range(s)     == {s[k] : k \in 1..Len(s)}
ItemsOfPage(i) == {k \in 1..Len(navItems) : navItems[k].page = i}
FirstMatch(g)  == CHOOSE i \in PageIds :
                    /\ Matches(i) /\ GroupOfPage(i) = g
                    /\ \A j \in PageIds : Matches(j) /\ GroupOfPage(j) = g => i <= j

\* C2: every page in pages[g], and so every rendered NavItem, has meta.group = g and
\* a text (title and description, non-empty ones joined by a space, lower-cased) that
\* contains the trimmed, lower-cased filter; the keys of pages are the entries of groups.
C2_FilterSound ==
  /\ DOMAIN filteredNav.pages = Range(filteredNav.groups)
  /\ \A g \in DOMAIN filteredNav.pages : \A i \in Range(filteredNav.pages[g]) :
       /\ i \in PageIds
       /\ GroupOfPage(i) = g
       /\ Matches(i)
  /\ \A k \in 1..Len(navItems) :
       /\ navItems[k].group \in DOMAIN filteredNav.pages
       /\ navItems[k].page \in Range(filteredNav.pages[navItems[k].group])

\* a filter with surrounding blanks and an upper-case letter keeps a page and drops one
C2_Witness ==
  /\ trim(filter) # filter
  /\ toLowerCase(filter) # filter
  /\ \E i \in PageIds : Matches(i) /\ ItemsOfPage(i) # {}
  /\ \E i \in PageIds : ~Matches(i) /\ ItemsOfPage(i) = {}

\* C4: a NavItem links to the page's href when meta.published is not the string
\* 'false', else to fallbackHref, '' when none was given; the href prop of an
\* unpublished page is never the one handed to the Link.
C4_LinkTarget ==
  \A k \in 1..Len(navItems) :
    LET p == AllPages[navItems[k].page]
    IN /\ navItems[k].link.value =
            IF p.meta.published # "false" THEN p.href
            ELSE IF fallbackHref = Undefined THEN "" ELSE fallbackHref
       /\ p.meta.published = "false" => navItems[k].link.from # "href"

\* under a filter, an unpublished page rendered without a fallbackHref, beside a
\* page whose published is undefined
C4_Witness ==
  /\ fallbackHref = Undefined
  /\ trim(filter) # <<>>
  /\ \E k \in 1..Len(navItems) :
       /\ AllPages[navItems[k].page].meta.published = "false"
       /\ navItems[k].link.value = ""
  /\ \E k \in 1..Len(navItems) :
       /\ AllPages[navItems[k].page].meta.published = Undefined
       /\ navItems[k].link.value = AllPages[navItems[k].page].href

C8_FilterComplete ==
  /\ \A i \in PageIds : Matches(i) =>
       /\ Cardinality(ItemsOfPage(i)) = 1
       /\ \A k \in ItemsOfPage(i) : navItems[k].group = GroupOfPage(i)
  /\ trim(filter) = <<>> => \A i \in PageIds : ItemsOfPage(i) # {}

\* the page's group gets a heading: it is listed once in config.sidebar.order when
\* that is set, and is a non-empty string when it is not
GroupListed(i) ==
  IF order.set
    THEN Cardinality({k \in 1..Len(order.val) : order.val[k] = GroupOfPage(i)}) = 1
    ELSE ~FalsyStr(GroupOfPage(i))

\* C8 as amended: every matching page whose group is listed is rendered exactly once,
\* under the heading of its group; an empty or blank filter renders every such page.
C8_FilterCompleteForListedGroups ==
  /\ \A i \in PageIds : Matches(i) /\ GroupListed(i) =>
       /\ Cardinality(ItemsOfPage(i)) = 1
       /\ \A k \in ItemsOfPage(i) : navItems[k].group = GroupOfPage(i)
  /\ trim(filter) = <<>> => \A i \in PageIds : GroupListed(i) => ItemsOfPage(i) # {}

\* a blank filter typed, every page of a listed group rendered, one page left out
C8_Witness ==
  /\ filter # <<>>
  /\ trim(filter) = <<>>
  /\ \E i \in PageIds : GroupListed(i) /\ Cardinality(ItemsOfPage(i)) = 1
  /\ \E i \in PageIds : ~GroupListed(i) /\ ItemsOfPage(i) = {}

\* the scroll container before the last render, the row of the active item
Before      == lastEvent.before["sidebar"]
ActiveTop   == offsetTop(navItems, activeItemRef)
ActiveShown == /\ Before <= ActiveTop
               /\ Before >= ActiveTop - ContainerHeight + ItemHeight

\* C1: after a route change with an active item mounted outside the visible range of
\* the scroll container, the container's scrollTop is top - height/2 + itemHeight/2.
C1_ScrollIntoView ==
  (/\ lastEvent.kind = "navigate"
   /\ activeItemRef # NullRef
   /\ ~ActiveShown)
    => scrollTop["sidebar"] = ClampScroll(ActiveTop - ContainerHalfHeight + ItemHalfHeight)

\* C5: a filter or version change with the route unchanged leaves scrollTop as it
\* was, and so does a route change whose active item is within the visible range.
C5_ScrollOnlyOnRouteChange ==
  /\ lastEvent.kind \in {"filter", "version"} => scrollTop = lastEvent.before
  /\ (/\ lastEvent.kind = "navigate"
      /\ activeItemRef # NullRef
      /\ ActiveShown) => scrollTop = lastEvent.before

\* the route changed to an item in view of a scrolled container, and the effect ran
C5_Witness ==
  /\ lastEvent.kind = "navigate"
  /\ lastEvent.effect
  /\ activeItemRef # NullRef
  /\ ActiveShown
  /\ Before > 0
  /\ filter # <<>>

\* C3: the Dialog's open flag is the navIsOpen prop; SidebarLayout calls setNavIsOpen
\* only with false, from the Dialog's onClose and the close button; without a
\* setNavIsOpen the close events raise nothing and leave navIsOpen as it was.
C3_DrawerControlled ==
  /\ dialogOpen = navIsOpen
  /\ \A k \in 1..Len(setNavIsOpenCalls) :
       /\ setNavIsOpenCalls[k].arg = FALSE
       /\ setNavIsOpenCalls[k].from \in {"onClose", "closeButton"}
  /\ ~hasSetNavIsOpen =>
       /\ setNavIsOpenCalls = <<>>
       /\ raised = "none"
       /\ lastEvent.kind \in {"onClose", "closeButton"} => navIsOpen

\* a close event with no setNavIsOpen supplied: the drawer stays open
C3_Witness ==
  /\ ~hasSetNavIsOpen
  /\ lastEvent.kind = "closeButton"
  /\ navIsOpen

\* the nearest ancestor-or-self of el, through shadow hosts, that is scrollable
RECURSIVE NearestScrollable(_, _)
NearestScrollable(d, el) ==
  IF el \notin DOMAIN d THEN "body"
  ELSE IF el = "body" \/ isScrollable(d, el) = "true" THEN el
  ELSE NearestScrollable(d, IF d[el].parentNode # "null" THEN d[el].parentNode
                            ELSE d[el].host)

\* C7: nearestScrollableContainer never throws and never returns undefined, for an
\* element of the document, a detached one or undefined; it returns the nearest
\* scrollable ancestor-or-self, through shadow hosts, or document.body.
C7_ContainerTotal ==
  /\ nsc.pc # "thrown"
  /\ nsc.pc = "returned" =>
       /\ nsc.el # NoNode
       /\ nsc.el = NearestScrollable(dom, nsc.arg)

====
